---- MODULE Spec2Model ----
(***************************************************************************)
(* Model of the Interstellar Houdini automation scripts:                   *)
(*   scripts/setup_houdini_ai.py        (setup_interstellar_ai and helpers)*)
(*   scripts/generate_interstellar_ship.py  (build_ship, call_sd_txt2img)  *)
(*   scripts/hython_autorun.py          (main)                             *)
(*                                                                         *)
(* The host scene graph is a function from node ids to records; files on   *)
(* disk are a function from paths to contents; HTTP requests issued and    *)
(* file reads/writes performed by the texture round trip are logged.       *)
(***************************************************************************)
EXTENDS Integers, Sequences, FiniteSets, TLC

\* ------------------------------------------------------------------ bounds

\* Number of entry-point runs / calls on one scene in a behaviour.
MaxRuns == 2
\* Number of text fragments a bounded prompt is concatenated from.
MaxFrags == 2

\* ----------------------------------------------------------------- strings

\* Python's None for a path or a flag, and for a string argument (a string is
\* a sequence of characters, so its None is a sequence no string equals).
None == "None"
NoneStr == <<"None">>

Upper == <<"A","B","C","D","E","F","G","H","I","J","K","L","M",
           "N","O","P","Q","R","S","T","U","V","W","X","Y","Z">>
LowerCase == <<"a","b","c","d","e","f","g","h","i","j","k","l","m",
               "n","o","p","q","r","s","t","u","v","w","x","y","z">>

\* str.lower() on one character.
LowerChar(c) ==
  IF \E i \in 1..Len(Upper) : Upper[i] = c
  THEN LowerCase[CHOOSE i \in 1..Len(Upper) : Upper[i] = c]
  ELSE c

\* str.lower(): a prompt is a sequence of characters.
Lower(s) == [i \in 1..Len(s) |-> LowerChar(s[i])]

\* Python's  kw in text  for strings.
Contains(text, kw) ==
  \E i \in 1..(Len(text) - Len(kw) + 1) : SubSeq(text, i, i + Len(kw) - 1) = kw

KwRivet == <<"r","i","v","e","t">>
KwGlow == <<"g","l","o","w">>
KwConduit == <<"c","o","n","d","u","i","t">>

\* A test for None alone, which takes "" for a value.
NotNone(s) == s # NoneStr

\* Python truthiness of an Optional[str] argument: None and "" are falsy.
Truthy(s) == s # NoneStr /\ s # <<>>

\* The default of setup_interstellar_ai's prompt_tweaks argument,
\* "add procedural rivets and glowing conduits".
DefaultTweaks ==
  <<"a","d","d"," ","p","r","o","c","e","d","u","r","a","l"," ",
    "r","i","v","e","t","s"," ","a","n","d"," ",
    "g","l","o","w","i","n","g"," ","c","o","n","d","u","i","t","s">>

\* Fragments the bounded prompts are built from.
Fragments ==
  { <<"r","i","v">>, <<"e","t">>, <<"R","i","v","E","T">>,
    <<"G","l","o","w">>, <<"c","o","n">>, <<"D","U","I","T">> }

RECURSIVE Concat(_)
Concat(ss) == IF ss = <<>> THEN <<>> ELSE Head(ss) \o Concat(Tail(ss))

\* Every concatenation of at most MaxFrags fragments.
BoundedPrompts ==
  { Concat(fs) : fs \in UNION { [1..k -> Fragments] : k \in 0..MaxFrags } }


\* ------------------------------------------------------------- scene graph

VARIABLES
  host,           \* what the host offers: [hou, requests] importable or not
  scene,          \* host node graph: node id -> [parent, type, inputs]
  fs,             \* files on disk: path -> content, or Absent
  shader,         \* texture parameters of the shader /mat/ship_mat
  pc,             \* position of the running script
  runs,           \* entry-point runs / calls started so far
  args,           \* arguments of the call in progress
  uv_out,         \* nodes["uv_out"]: the node _create_spaceship_blockout returns
  cockpit_nodes,  \* None, or the cockpit's output node
  locals,         \* snapshot_ok, sd_ok, cockpit_snapshot_ok, cockpit_ok
  attempt,        \* state of each texture attempt of this run
  sd,             \* frame of the texture round trip in progress
  http,           \* HTTP requests issued in this run, in order
  exc,            \* the exception that ended the run, or NoExc
  assigned,       \* shop_materialpath1 of the material node assign_material
  printed,        \* report lines printed in this run
  saved           \* scene files saved in this run, in order

vars == <<host, scene, fs, shader, pc, runs, args, uv_out, cockpit_nodes,
          locals, attempt, sd, http, exc, assigned, printed, saved>>

\* A node id is <<name, k>>: k = 0 is the name as given, k >= 1 is the numeric
\* suffix the host appends when createNode is asked for a name already taken.
N(name) == <<name, 0>>
NoNode == <<None, 0>>

\* parent.node(name)
NodeOf(sc, name) == IF N(name) \in DOMAIN sc THEN N(name) ELSE NoNode

\* node.input(i)
InputOf(sc, n, i) ==
  IF i \in DOMAIN sc[n].inputs THEN sc[n].inputs[i] ELSE NoNode

\* node.setInput(i, m)
SetInput(sc, n, i, m) ==
  [sc EXCEPT ![n].inputs = (i :> m) @@ sc[n].inputs]

\* The id parent.createNode(type, node_name=name) gives the new node.
FreshId(sc, name) ==
  <<name, CHOOSE k \in 0..Cardinality(DOMAIN sc) :
            /\ <<name, k>> \notin DOMAIN sc
            /\ \A j \in 0..(k - 1) : <<name, j>> \in DOMAIN sc>>

\* parent.createNode(type, node_name=name)
CreateNode(sc, parent, type, name) ==
  (FreshId(sc, name) :> [parent |-> parent, type |-> type, inputs |-> <<>>]) @@ sc

\* _get_or_create(parent, type, name)
GetOrCreate(sc, parent, type, name) ==
  IF N(name) \in DOMAIN sc THEN sc ELSE CreateNode(sc, parent, type, name)

\* A merge helper that never re-wires the first input of a wired node.
ConnectMergeKeepFirst(sc, parent, a, b, name) ==
  LET found == NodeOf(sc, name)
      make  == found = NoNode \/ sc[found].type # "merge"
      node  == IF make THEN FreshId(sc, name) ELSE found
      sc1   == IF make THEN CreateNode(sc, parent, "merge", name) ELSE sc
  IN  IF InputOf(sc1, node, 0) = NoNode
      THEN [scene |-> SetInput(SetInput(sc1, node, 0, a), node, 1, b),
            node  |-> node]
      ELSE LET idx == CHOOSE i \in 1..(Cardinality(DOMAIN sc1[node].inputs) + 1) :
                        /\ InputOf(sc1, node, i) = NoNode
                        /\ \A j \in 1..(i - 1) : InputOf(sc1, node, j) # NoNode
           IN  [scene |-> SetInput(sc1, node, idx, b), node |-> node]

\* A merge helper that always wires the branch at input 1 of a wired node.
ConnectMergeOverwrite(sc, parent, a, b, name) ==
  LET found == NodeOf(sc, name)
      make  == found = NoNode \/ sc[found].type # "merge"
      node  == IF make THEN FreshId(sc, name) ELSE found
      sc1   == IF make THEN CreateNode(sc, parent, "merge", name) ELSE sc
      sc2   == SetInput(sc1, node, 1, b)
  IN  [scene |-> IF InputOf(sc2, node, 0) # a THEN SetInput(sc2, node, 0, a) ELSE sc2,
       node  |-> node]

\* The graph after _connect_merge(parent, a, b, name) and the node it returns.
ConnectMerge(sc, parent, a, b, name) ==
  LET found == NodeOf(sc, name)
      make  == found = NoNode \/ sc[found].type # "merge"
      node  == IF make THEN FreshId(sc, name) ELSE found
      sc1   == IF make THEN CreateNode(sc, parent, "merge", name) ELSE sc
  IN  IF InputOf(sc1, node, 0) = NoNode
      THEN [scene |-> SetInput(SetInput(sc1, node, 0, a), node, 1, b),
            node  |-> node]
      ELSE LET idx == CHOOSE i \in 1..(Cardinality(DOMAIN sc1[node].inputs) + 1) :
                        /\ InputOf(sc1, node, i) = NoNode
                        /\ \A j \in 1..(i - 1) : InputOf(sc1, node, j) # NoNode
               sc2 == SetInput(sc1, node, idx, b)
           IN  [scene |-> IF InputOf(sc2, node, 0) # a
                          THEN SetInput(sc2, node, 0, a) ELSE sc2,
                node  |-> node]

\* itertools-style fold of _get_or_create over a list of <<type, name>>.
RECURSIVE GetOrCreateAll(_, _, _)
GetOrCreateAll(sc, parent, specs) ==
  IF specs = <<>> THEN sc
  ELSE GetOrCreateAll(GetOrCreate(sc, parent, Head(specs)[1], Head(specs)[2]),
                      parent, Tail(specs))

\* merge.setInput(i, n) for i, n in enumerate(names), inputs numbered from 0.
RECURSIVE SetInputs(_, _, _, _)
SetInputs(sc, n, from, names) ==
  IF names = <<>> THEN sc
  ELSE SetInputs(SetInput(sc, n, from, N(Head(names))), n, from + 1, Tail(names))

GeoName == "interstellar_ship"

\* The body of _apply_prompt_tweaks after  text = prompt_text.lower() : the
\* graph after it and the node it returns.
TweaksFor(sc, input_node, text) ==
  LET r1 == GetOrCreate(sc, GeoName, "scatter", "rivets_scatter")
      r2 == SetInput(r1, N("rivets_scatter"), 0, input_node)
      r3 == GetOrCreate(r2, GeoName, "circle", "rivet_circle")
      r4 == GetOrCreate(r3, GeoName, "copytopoints", "rivets_copy")
      r5 == SetInput(SetInput(r4, N("rivets_copy"), 0, N("rivet_circle")),
                     N("rivets_copy"), 1, N("rivets_scatter"))
      afterRivet ==
        IF Contains(text, KwRivet)
        THEN ConnectMerge(r5, GeoName, input_node, N("rivets_copy"), "merge_rivets")
        ELSE [scene |-> sc, node |-> input_node]
      c1 == GetOrCreate(afterRivet.scene, GeoName, "curve", "conduit_curve")
      c2 == GetOrCreate(c1, GeoName, "polywire", "conduit_wire")
      c3 == SetInput(c2, N("conduit_wire"), 0, N("conduit_curve"))
  IN  IF Contains(text, KwGlow) \/ Contains(text, KwConduit)
      THEN ConnectMerge(c3, GeoName, afterRivet.node, N("conduit_wire"), "merge_conduit")
      ELSE afterRivet

\* A selector that forgets to lower-case the prompt.
ApplyPromptTweaksCaseSensitive(sc, input_node, prompt_text) ==
  TweaksFor(sc, input_node, prompt_text)

\* A selector that takes the conduit branch only when no rivets were asked for.
ApplyPromptTweaksExclusive(sc, input_node, prompt_text) ==
  IF Contains(Lower(prompt_text), KwRivet)
  THEN TweaksFor(sc, input_node, KwRivet)
  ELSE TweaksFor(sc, input_node, Lower(prompt_text))

\* _apply_prompt_tweaks(geo_node, input_node, prompt_text)
ApplyPromptTweaks(sc, input_node, prompt_text) ==
  TweaksFor(sc, input_node, Lower(prompt_text))

ShipParts ==
  << <<"tube", "hull_core">>, <<"tube", "hull_shield_1">>, <<"tube", "hull_shield_2">>,
     <<"cone", "engine_nozzle_L">>, <<"cone", "engine_nozzle_R">>,
     <<"sphere", "engine_plasma_L">>, <<"sphere", "engine_plasma_R">>,
     <<"torus", "bussard_ring">>, <<"cone", "bussard_cone">> >>

ShipPartNames == [i \in 1..Len(ShipParts) |-> ShipParts[i][2]]

\* A builder that applies the tweaks to the reduced mesh and unwraps after.
CreateSpaceshipBlockoutTweaksFirst(sc, prompt_tweaks, uv_type, reduce_type) ==
  LET g1 == GetOrCreate(sc, "obj", "geo", GeoName)
      g2 == GetOrCreateAll(g1, GeoName, ShipParts)
      g3 == GetOrCreate(g2, GeoName, "merge", "ship_merge")
      g4 == SetInputs(g3, N("ship_merge"), 0, ShipPartNames)
      g5 == GetOrCreate(g4, GeoName, reduce_type, "opt_reduce")
      g6 == SetInput(g5, N("opt_reduce"), 0, N("ship_merge"))
      tw == IF Truthy(prompt_tweaks)
            THEN ApplyPromptTweaks(g6, N("opt_reduce"), prompt_tweaks)
            ELSE [scene |-> g6, node |-> N("opt_reduce")]
      g7 == GetOrCreate(tw.scene, GeoName, uv_type, "uvs")
      g8 == SetInput(g7, N("uvs"), 0, tw.node)
      g9 == GetOrCreate(g8, GeoName, "material", "assign_material")
  IN  [scene |-> SetInput(g9, N("assign_material"), 0, N("uvs")),
       node  |-> N("uvs")]

\* The graph after _create_spaceship_blockout(prompt_tweaks), /obj found, and
\* the node it returns as "uv_out".
CreateSpaceshipBlockout(sc, prompt_tweaks, uv_type, reduce_type) ==
  LET g1 == GetOrCreate(sc, "obj", "geo", GeoName)
      g2 == GetOrCreateAll(g1, GeoName, ShipParts)
      g3 == GetOrCreate(g2, GeoName, "merge", "ship_merge")
      g4 == SetInputs(g3, N("ship_merge"), 0, ShipPartNames)
      g5 == GetOrCreate(g4, GeoName, reduce_type, "opt_reduce")
      g6 == SetInput(g5, N("opt_reduce"), 0, N("ship_merge"))
      g7 == GetOrCreate(g6, GeoName, uv_type, "uvs")
      g8 == SetInput(g7, N("uvs"), 0, N("opt_reduce"))
      tw == IF Truthy(prompt_tweaks)
            THEN ApplyPromptTweaks(g8, N("uvs"), prompt_tweaks)
            ELSE [scene |-> g8, node |-> N("uvs")]
      g9 == GetOrCreate(tw.scene, GeoName, "material", "assign_material")
  IN  [scene |-> SetInput(g9, N("assign_material"), 0, tw.node),
       node  |-> tw.node]

\* ------------------------------------------------------ files and responses

Absent == "absent"
Textures == {"ship", "cockpit"}

\* ai_dir / "ship_view.png", ai_dir / "cockpit_view.png"
SnapshotPath(t) == IF t = "ship" THEN "ship_view.png" ELSE "cockpit_view.png"
\* ai_dir / "ship_texture.png", ai_dir / "cockpit_texture.png"
TexturePath(t) == IF t = "ship" THEN "ship_texture.png" ELSE "cockpit_texture.png"

Paths == { SnapshotPath(t) : t \in Textures } \cup { TexturePath(t) : t \in Textures }

\* File contents: a rendered view, two images a server may return, and the
\* empty file a failed write leaves behind.
Images == {"imgA", "imgB"}
Contents == {"view", "empty"} \cup Images

\* base64: an encoded text is tagged with the bytes it encodes; NotB64 is a
\* text that is not valid base64.
B64Encode(bytes) == <<"b64", bytes>>
NotB64 == <<"text", "garbage">>
IsB64(txt) == txt[1] = "b64"
B64Decode(txt) == txt[2]

\* Number of entries a response's image list may hold.
MaxImages == 2

ImageTexts == { B64Encode(i) : i \in Images } \cup { NotB64 }
ImageLists == UNION { [1..k -> ImageTexts] : k \in 0..MaxImages }

\* What requests.post may do: raise (no connection, timeout), or return a
\* response with an error status, a body that is not JSON, a JSON object
\* without "images", or a JSON object with an image list.
Responses ==
  [kind : {"conn_error", "timeout", "http_error", "bad_json", "no_images_key"},
   images : {<<>>}]
  \cup [kind : {"ok"}, images : ImageLists]

NoResp == [kind |-> "none", images |-> <<>>]

\* What the filesystem may do when the image is stored.
FsFaults == {"none", "mkdir_fails", "open_fails", "write_fails"}

BaseUrl == <<"http://127.0.0.1:7860">>
\* sd_api_url values: None, "", the base URL, the base URL with a trailing "/".
ApiUrls == { NoneStr, <<>>, BaseUrl, BaseUrl \o <<"/">> }

\* str.rstrip("/")
RECURSIVE RStripSlash(_)
RStripSlash(u) ==
  IF u # <<>> /\ u[Len(u)] = "/" THEN RStripSlash(SubSeq(u, 1, Len(u) - 1)) ELSE u

Txt2Img == "/sdapi/v1/txt2img"
Img2Img == "/sdapi/v1/img2img"

\* The payload both round trips start from.
BasePayload ==
  [k \in {"prompt", "steps", "cfg_scale", "sampler_name", "width", "height"} |->
     CASE k = "prompt" -> "prompt"
       [] k = "steps" -> 20
       [] k = "cfg_scale" -> "7.0"
       [] k = "sampler_name" -> "Euler a"
       [] k = "width" -> 1024
       [] k = "height" -> 1024]

\* An update that forgets the denoising strength.
WithInitImageNoDenoise(payload, init_b64) ==
  [k \in DOMAIN payload \cup {"init_images"} |->
     IF k = "init_images" THEN <<init_b64>> ELSE payload[k]]

\* payload.update({"init_images": [init_b64], "denoising_strength": 0.6})
WithInitImage(payload, init_b64) ==
  [k \in DOMAIN payload \cup {"init_images", "denoising_strength"} |->
     CASE k = "init_images" -> <<init_b64>>
       [] k = "denoising_strength" -> "0.6"
       [] OTHER -> payload[k]]

NoCall ==
  [variant |-> "none", t |-> "none", init_image |-> None, output_image |-> None,
   api_url |-> NoneStr, endpoint |-> None, payload |-> <<>>, resp |-> NoResp,
   ret |-> None, skipped |-> FALSE, reads |-> {}, writes |-> <<>>,
   fault |-> "none"]

\* base64.b64decode(images[0]), mkdir, write_bytes inside the try block: the
\* frame and the files after them; a failure is caught and gives False.
StoreFirst(frame, files, images, fault) ==
  IF ~IsB64(images[1]) \/ fault \in {"mkdir_fails", "open_fails"}
  THEN [frame |-> [frame EXCEPT !.ret = "False"], fs |-> files]
  ELSE IF fault = "write_fails"
  THEN [frame |-> [frame EXCEPT
                     !.ret = "False",
                     !.writes = Append(@, [path |-> frame.output_image,
                                           data |-> "empty"])],
        fs |-> [files EXCEPT ![frame.output_image] = "empty"]]
  ELSE [frame |-> [frame EXCEPT
                     !.ret = "True",
                     !.writes = Append(@, [path |-> frame.output_image,
                                           data |-> B64Decode(images[1])])],
        fs |-> [files EXCEPT ![frame.output_image] = B64Decode(images[1])]]

\* data.get("images") or []
ImagesOf(resp) == IF resp.kind = "ok" THEN resp.images ELSE <<>>

RequestFailed(resp) ==
  resp.kind \in {"conn_error", "timeout", "http_error", "bad_json"}

\* A response handling that stores the last image of the list.
StoreImageLast(frame, files, resp, fault) ==
  IF RequestFailed(resp) \/ ImagesOf(resp) = <<>>
  THEN [frame |-> [frame EXCEPT !.ret = "False"], fs |-> files]
  ELSE StoreFirst(frame, files, <<ImagesOf(resp)[Len(ImagesOf(resp))]>>, fault)

\* A response handling that takes an empty image list for a success.
StoreImageEmptyOk(frame, files, resp, fault) ==
  IF RequestFailed(resp)
  THEN [frame |-> [frame EXCEPT !.ret = "False"], fs |-> files]
  ELSE IF ImagesOf(resp) = <<>>
  THEN [frame |-> [frame EXCEPT !.ret = "True"], fs |-> files]
  ELSE StoreFirst(frame, files, ImagesOf(resp), fault)

\* The frame and the files after the response handling of
\* _call_stable_diffusion (lines 453-470) and call_sd_txt2img (lines 42-59):
\* every exception is caught and gives False.
StoreImage(frame, files, resp, fault) ==
  IF RequestFailed(resp) \/ ImagesOf(resp) = <<>>
  THEN [frame |-> [frame EXCEPT !.ret = "False"], fs |-> files]
  ELSE StoreFirst(frame, files, ImagesOf(resp), fault)

\* --------------------------------------------------------- host and inputs

\* What the host installation offers: the hou module, the /obj and /out
\* roots, an OpenGL ROP type, the parameters camera, vm_picture, trange, res1
\* and res2 on that ROP type, a StableHoudini TOP type, and the requests
\* package.
HostOk ==
  [hou |-> TRUE, obj |-> TRUE, out |-> TRUE, rop |-> TRUE, rop_parms |-> TRUE,
   sd_top |-> TRUE, requests |-> TRUE]
HostConfigs ==
  { HostOk,
    [HostOk EXCEPT !.hou = FALSE], [HostOk EXCEPT !.obj = FALSE],
    [HostOk EXCEPT !.out = FALSE], [HostOk EXCEPT !.rop = FALSE],
    [HostOk EXCEPT !.rop_parms = FALSE], [HostOk EXCEPT !.sd_top = FALSE],
    [HostOk EXCEPT !.requests = FALSE] }

CockpitStyle == <<"r","e","t","r","o">>

\* prompt_tweaks values of whole runs: None, one keyword group, the default.
PromptSamples == { NoneStr, <<"R","i","v","e","t","s">>, DefaultTweaks }

\* sd_api_url values of whole runs.
RunUrls == { NoneStr, <<>>, BaseUrl \o <<"/">> }

\* Answers and filesystem faults of whole runs: one of each kind the response
\* handling tells apart.
RunResponses ==
  [kind : {"timeout", "no_images_key"}, images : {<<>>}]
  \cup [kind : {"ok"}, images : {<<>>, <<B64Encode("imgA")>>}]
RunFaults == {"none", "open_fails"}

\* No call in progress. script is the script file that was run, or "shell"
\* for a call from the Python shell; entry is the routine that builds the
\* scene or the function called; a, b and name are _connect_merge's.
NoArgs ==
  [script |-> "none", entry |-> "none", prompt_tweaks |-> NoneStr,
   sd_api_url |-> NoneStr, cockpit_style |-> NoneStr,
   build_stablehoudini_pdg |-> FALSE, a |-> NoNode, b |-> NoNode, name |-> None]

NoLocals ==
  [snapshot_ok |-> None, sd_ok |-> None,
   cockpit_snapshot_ok |-> None, cockpit_ok |-> None]

NoExc == [where |-> "none", what |-> "none"]

NoShader == [basecolor_useTexture |-> 0, basecolor_texture |-> ""]

\* The scene `sc` in a project directory holding `files`, nothing run yet.
InitAt(files, sc) ==
  /\ host \in HostConfigs
  /\ scene = sc
  /\ fs = files
  /\ shader = NoShader
  /\ pc = "idle"
  /\ runs = 0
  /\ args = NoArgs
  /\ uv_out = NoNode
  /\ cockpit_nodes = None
  /\ locals = NoLocals
  /\ attempt = [t \in Textures |-> "NOT_REQUESTED"]
  /\ sd = NoCall
  /\ http = <<>>
  /\ exc = NoExc
  /\ assigned = ""
  /\ printed = {}
  /\ saved = <<>>

\* A new scene in a project directory holding `files`.
InitWith(files) == InitAt(files, <<>>)

\* A new scene in a project directory without generated files.
Init == InitWith([p \in Paths |-> Absent])

\* A call or a script run starts with fresh locals; the scene, the files and
\* the shader stay.
Begin(a, first, frame) ==
  /\ pc \in {"idle", "done", "aborted"}
  /\ runs < MaxRuns
  /\ runs' = runs + 1
  /\ args' = a
  /\ pc' = first
  /\ uv_out' = NoNode
  /\ cockpit_nodes' = None
  /\ locals' = NoLocals
  /\ attempt' = [t \in Textures |-> IF frame.t = t THEN "REQUESTED"
                                     ELSE "NOT_REQUESTED"]
  /\ sd' = frame
  /\ http' = <<>>
  /\ exc' = NoExc
  /\ UNCHANGED <<host, scene, fs, shader, assigned>>
  /\ printed' = {}
  /\ saved' = <<>>

Raise(where, what) ==
  /\ pc' = "aborted"
  /\ exc' = [where |-> where, what |-> what]

\* setup_interstellar_ai(prompt_tweaks=..., sd_api_url=..., cockpit_style=...,
\* build_stablehoudini_pdg=...): the script's own last line calls it with the
\* defaults, the Python shell with any arguments.
CallSetup ==
  \E p \in PromptSamples, u \in RunUrls, c \in {NoneStr, CockpitStyle}, g \in BOOLEAN :
    Begin([NoArgs EXCEPT !.script = "shell", !.entry = "setup_interstellar_ai",
                         !.prompt_tweaks = p, !.sd_api_url = u,
                         !.cockpit_style = c, !.build_stablehoudini_pdg = g],
          "ensure", NoCall)

\* _create_spaceship_blockout(prompt_tweaks) called on its own with a prompt
\* from the bounded set.
CallBlockout ==
  \E p \in BoundedPrompts :
    Begin([NoArgs EXCEPT !.entry = "_create_spaceship_blockout",
                         !.prompt_tweaks = p], "blockout", NoCall)

\* _ensure_houdini(), _check_versions(), import hou
EnsureHoudini ==
  /\ pc = "ensure"
  /\ IF host.hou
     THEN pc' = "blockout" /\ UNCHANGED exc
     ELSE Raise("_ensure_houdini", "RuntimeError")
  /\ UNCHANGED <<assigned, printed, saved, host, scene, fs, shader, runs, args, uv_out, cockpit_nodes,
                 locals, attempt, sd, http>>

\* nodes = _create_spaceship_blockout(prompt_tweaks=prompt_tweaks)
Blockout ==
  /\ pc = "blockout"
  /\ IF host.obj
     THEN LET b == CreateSpaceshipBlockout(scene, args.prompt_tweaks,
                                           "uvflatten::2.0", "polyreduce::2.0")
          IN  /\ scene' = b.scene
              /\ uv_out' = b.node
              /\ pc' = IF args.entry = "_create_spaceship_blockout"
                       THEN "done" ELSE "cockpit"
              /\ UNCHANGED exc
     ELSE /\ Raise("_create_spaceship_blockout", "RuntimeError")
          /\ UNCHANGED <<scene, uv_out>>
  /\ UNCHANGED <<assigned, printed, saved, host, fs, shader, runs, args, cockpit_nodes, locals, attempt, sd, http>>

CockpitName == "interstellar_cockpit"

\* The graph after _add_cockpit(parent_obj, style_prompt).
AddCockpit(sc, uv_type) ==
  LET k1 == GetOrCreate(sc, "obj", "geo", CockpitName)
      k2 == GetOrCreateAll(k1, CockpitName,
              << <<"grid", "dashboard_grid">>, <<"scatter", "holo_scatter">>,
                 <<"sphere", "holo_orb">>, <<"copytopoints", "holo_copy">>,
                 <<"merge", "cockpit_merge">>, <<uv_type, "cockpit_uvs">> >>)
      k3 == SetInput(k2, N("holo_scatter"), 0, N("dashboard_grid"))
      k4 == SetInputs(k3, N("holo_copy"), 0, <<"holo_orb", "holo_scatter">>)
      k5 == SetInputs(k4, N("cockpit_merge"), 0, <<"dashboard_grid", "holo_copy">>)
      k6 == SetInput(k5, N("cockpit_uvs"), 0, N("cockpit_merge"))
      k7 == GetOrCreate(k6, "obj", "cam", "cockpit_cam")
      k8 == GetOrCreate(k7, CockpitName, "attribcreate", "holo_emission_hint")
  IN  SetInput(k8, N("holo_emission_hint"), 0, N("cockpit_uvs"))

\* if cockpit_style: cockpit_nodes = _add_cockpit(nodes["obj"], cockpit_style)
Cockpit ==
  /\ pc = "cockpit"
  /\ IF Truthy(args.cockpit_style)
     THEN /\ scene' = AddCockpit(scene, "uvflatten::2.0")
          /\ cockpit_nodes' = N("holo_emission_hint")
     ELSE UNCHANGED <<scene, cockpit_nodes>>
  /\ pc' = "camera"
  /\ UNCHANGED <<assigned, printed, saved, host, fs, shader, runs, args, uv_out, locals, attempt, sd, http, exc>>

\* The graph after _create_camera_and_lights().
CreateCameraAndLights(sc) ==
  GetOrCreateAll(sc, "obj", << <<"cam", "interstellar_cam">>,
                               <<"hlight", "key_light">>, <<"hlight", "fill_light">> >>)

\* cam = _create_camera_and_lights(); the paths under ai_tools/generated
Camera ==
  /\ pc = "camera"
  /\ scene' = CreateCameraAndLights(scene)
  /\ pc' = "snapshot_ship"
  /\ UNCHANGED <<assigned, printed, saved, host, fs, shader, runs, args, uv_out, cockpit_nodes, locals,
                 attempt, sd, http, exc>>

\* What rop.render() may do: raise, return without an image, write the image.
RenderOutcomes == {"raises", "no_file", "writes"}

\* _render_viewport_snapshot(output_path, ...): the graph, the files and the
\* value returned.
RenderViewportSnapshot(sc, files, output_path, has_out, has_rop, outcome) ==
  IF ~has_out \/ ~has_rop
  THEN [scene |-> sc, fs |-> files, ret |-> "False"]
  ELSE LET sc1 == GetOrCreate(sc, "out", "opengl", "interstellar_snapshot")
           files1 == IF outcome = "writes"
                     THEN [files EXCEPT ![output_path] = "view"] ELSE files
       IN  [scene |-> sc1, fs |-> files1,
            ret |-> IF outcome # "raises" /\ files1[output_path] # Absent
                    THEN "True" ELSE "False"]

LocalOfSnapshot(t) == IF t = "ship" THEN "snapshot_ok" ELSE "cockpit_snapshot_ok"
LocalOfSd(t) == IF t = "ship" THEN "sd_ok" ELSE "cockpit_ok"

\* snapshot_ok = _render_viewport_snapshot(...), and the cockpit's. The ROP's
\* parameters are set outside the try block (lines 402-406): on a ROP type
\* without them rop.parm(...) is None and .set raises AttributeError.
Snapshot(t) ==
  /\ pc = "snapshot_" \o t
  /\ IF host.out /\ host.rop /\ ~host.rop_parms
     THEN /\ scene' = GetOrCreate(scene, "out", "opengl", "interstellar_snapshot")
          /\ Raise("_render_viewport_snapshot", "AttributeError")
          /\ UNCHANGED <<fs, locals>>
     ELSE /\ \E outcome \in RenderOutcomes :
               LET r == RenderViewportSnapshot(scene, fs, SnapshotPath(t),
                                               host.out, host.rop, outcome)
               IN  /\ scene' = r.scene
                   /\ fs' = r.fs
                   /\ locals' = [locals EXCEPT ![LocalOfSnapshot(t)] = r.ret]
          /\ pc' = "sd_call_" \o t
          /\ UNCHANGED exc
  /\ UNCHANGED <<assigned, printed, saved, host, shader, runs, args, uv_out,
                 cockpit_nodes, attempt, sd, http>>

\* sd_ok = _call_stable_diffusion(init_image=snapshot_path if snapshot_ok else
\* None, prompt, output_image=texture_path, api_url=sd_api_url): the call.
SdCall(t) ==
  /\ pc = "sd_call_" \o t
  /\ sd' = [NoCall EXCEPT
              !.variant = "_call_stable_diffusion",
              !.t = t,
              !.init_image = IF locals[LocalOfSnapshot(t)] = "True"
                             THEN SnapshotPath(t) ELSE None,
              !.output_image = TexturePath(t),
              !.api_url = args.sd_api_url]
  /\ attempt' = [attempt EXCEPT ![t] = "REQUESTED"]
  /\ pc' = "sd_prepare"
  /\ UNCHANGED <<assigned, printed, saved, host, scene, fs, shader, runs, args, uv_out, cockpit_nodes,
                 locals, http, exc>>

\* _call_stable_diffusion up to the request (lines 420-451): the frame after
\* it, given whether reading the init image fails.
PrepareRequest(frame, files, has_requests, read_fails) ==
  IF ~Truthy(frame.api_url) \/ ~has_requests
  THEN [frame |-> [frame EXCEPT !.ret = "False", !.skipped = TRUE], raised |-> FALSE]
  ELSE IF frame.init_image # None /\ files[frame.init_image] # Absent
       THEN IF read_fails
            THEN [frame |-> [frame EXCEPT !.endpoint = Img2Img,
                                          !.payload = BasePayload],
                  raised |-> TRUE]
            ELSE [frame |-> [frame EXCEPT
                    !.endpoint = Img2Img,
                    !.reads = @ \cup {frame.init_image},
                    !.payload = WithInitImage(BasePayload,
                                              B64Encode(files[frame.init_image]))],
                  raised |-> FALSE]
       ELSE [frame |-> [frame EXCEPT !.endpoint = Txt2Img, !.payload = BasePayload],
             raised |-> FALSE]

SdPrepare ==
  /\ pc = "sd_prepare"
  /\ sd.variant = "_call_stable_diffusion"
  /\ \E read_fails \in BOOLEAN :
       LET r == PrepareRequest(sd, fs, host.requests, read_fails)
       IN  /\ sd' = r.frame
           /\ IF r.raised THEN Raise("_call_stable_diffusion", "OSError")
              ELSE /\ pc' = IF r.frame.ret = "False" THEN "sd_return" ELSE "sd_post"
                   /\ UNCHANGED exc
  /\ UNCHANGED <<assigned, printed, saved, host, scene, fs, shader, runs, args, uv_out, cockpit_nodes,
                 locals, attempt, http>>

\* call_sd_txt2img up to the request (lines 29-41): the frame after it.
PrepareTxt2Img(frame, has_requests) ==
  IF ~has_requests
  THEN [frame EXCEPT !.ret = "False", !.skipped = TRUE]
  ELSE [frame EXCEPT !.endpoint = Txt2Img, !.payload = BasePayload]

Txt2ImgPrepare ==
  /\ pc = "sd_prepare"
  /\ sd.variant = "call_sd_txt2img"
  /\ sd' = PrepareTxt2Img(sd, host.requests)
  /\ pc' = IF sd'.ret = "False" THEN "sd_return" ELSE "sd_post"
  /\ UNCHANGED <<assigned, printed, saved, host, scene, fs, shader, runs, args,
                 uv_out, cockpit_nodes, locals, attempt, http, exc>>

\* requests.post(api_url.rstrip("/") + endpoint, json=payload, timeout=...):
\* the request goes out and the server, or the network, answers.
SdPost(answers) ==
  /\ pc = "sd_post"
  /\ http' = Append(http, [t |-> sd.t, by |-> sd.variant,
                           url |-> RStripSlash(sd.api_url) \o <<sd.endpoint>>,
                           payload |-> sd.payload,
                           timeout |-> IF sd.variant = "_call_stable_diffusion"
                                       THEN 120 ELSE 180])
  /\ \E resp \in answers : sd' = [sd EXCEPT !.resp = resp]
  /\ pc' = "sd_store"
  /\ UNCHANGED <<assigned, printed, saved, host, scene, fs, shader, runs, args,
                 uv_out, cockpit_nodes, locals, attempt, exc>>

\* raise_for_status, json, images, b64decode, mkdir, write_bytes, all inside
\* the try block.
SdStore(faults) ==
  /\ pc = "sd_store"
  /\ \E fault \in faults :
       LET r == StoreImage(sd, fs, sd.resp, fault)
       IN  sd' = [r.frame EXCEPT !.fault = fault] /\ fs' = r.fs
  /\ pc' = "sd_return"
  /\ UNCHANGED <<assigned, printed, saved, host, scene, shader, runs, args,
                 uv_out, cockpit_nodes, locals, attempt, http, exc>>

\* The outcome of a texture attempt whose call returned.
Outcome(frame) ==
  IF frame.ret = "True" THEN "SUCCEEDED"
  ELSE IF frame.skipped THEN "SKIPPED" ELSE "FAILED"

\* Where the caller goes on after a texture call returned: a direct call is
\* over, setup_interstellar_ai goes on to the cockpit or to the material.
AfterSd(entry, t, cockpit, pdg) ==
  IF entry = "build_ship" THEN "gen_texture"
  ELSE IF entry # "setup_interstellar_ai" THEN "done"
  ELSE IF t = "ship"
  THEN IF cockpit # None THEN "snapshot_cockpit" ELSE "material"
  ELSE IF pdg THEN "pdg" ELSE "material"

\* The call returns: sd_ok / cockpit_ok is assigned.
SdReturn ==
  /\ pc = "sd_return"
  /\ locals' = [locals EXCEPT ![LocalOfSd(sd.t)] = sd.ret]
  /\ attempt' = [attempt EXCEPT ![sd.t] = Outcome(sd)]
  /\ pc' = AfterSd(args.entry, sd.t, cockpit_nodes, args.build_stablehoudini_pdg)
  /\ sd' = NoCall
  /\ UNCHANGED <<assigned, printed, saved, host, scene, fs, shader, runs, args,
                 uv_out, cockpit_nodes, http, exc>>

\* The graph after _try_stablehoudini_pdg(...): every exception is caught.
TryStablehoudiniPdg(sc, has_type) ==
  LET p1 == GetOrCreate(sc, "obj", "topnet", "stablehoudini_pdg")
      top == FreshId(p1, "sd_img2img_cockpit")
      p2 == CreateNode(p1, "stablehoudini_pdg", "sd_img2img", "sd_img2img_cockpit")
      p3 == CreateNode(p2, "stablehoudini_pdg", "localscheduler", "localscheduler")
  IN  IF ~has_type THEN p1
      ELSE IF N("localscheduler") \in DOMAIN p2 THEN p2
      ELSE SetInput(p3, top, 0, N("localscheduler"))

\* if build_stablehoudini_pdg: _try_stablehoudini_pdg(cockpit_nodes["geo"].path())
Pdg ==
  /\ pc = "pdg"
  /\ scene' = TryStablehoudiniPdg(scene, host.sd_top)
  /\ pc' = "material"
  /\ UNCHANGED <<assigned, printed, saved, host, fs, shader, runs, args, uv_out,
                 cockpit_nodes, locals, attempt, sd, http, exc>>

MatPath == "/mat/ship_mat"

\* A material update that takes the texture file on disk, asked for or not.
UpdateMaterialFromDisk(sh, files, texture_path) ==
  IF files[TexturePath("ship")] # Absent
  THEN [basecolor_useTexture |-> 1, basecolor_texture |-> TexturePath("ship")]
  ELSE sh

\* The shader after _create_or_update_material(texture_path): the shader has
\* the parameters basecolor_useTexture and basecolor_texture.
UpdateMaterial(sh, files, texture_path) ==
  IF texture_path # None /\ files[texture_path] # Absent
  THEN [basecolor_useTexture |-> 1, basecolor_texture |-> texture_path]
  ELSE sh

\* mat = _create_or_update_material(texture_path if sd_ok else None)
\* _assign_material_to_geo(mat.path(), nodes["mat_sop"])
Material ==
  /\ pc = "material"
  /\ scene' = GetOrCreate(scene, "mat", "principledshader::2.0", "ship_mat")
  /\ shader' = UpdateMaterial(shader, fs,
                  IF locals.sd_ok = "True" THEN TexturePath("ship") ELSE None)
  /\ assigned' = MatPath
  /\ pc' = "report"
  /\ UNCHANGED <<printed, saved, host, fs, runs, args, uv_out,
                 cockpit_nodes, locals, attempt, sd, http, exc>>

\* The lines setup_interstellar_ai prints at its end.
ReportLines(sd_ok, cockpit, files) ==
  {"Setup complete."}
  \cup (IF sd_ok = "True" THEN {"Applied AI texture"}
        ELSE {"AI texture step skipped or failed"})
  \cup (IF cockpit = None THEN {}
        ELSE IF files[TexturePath("cockpit")] # Absent
             THEN {"Applied cockpit AI texture"}
             ELSE {"Cockpit AI texture step skipped or failed."})

\* A report after which every run is over.
ReportThenDone ==
  /\ pc = "report"
  /\ printed' = ReportLines(locals.sd_ok, cockpit_nodes, fs)
  /\ pc' = "done"
  /\ UNCHANGED <<assigned, saved, host, scene, fs, shader, runs, args, uv_out,
                 cockpit_nodes, locals, attempt, sd, http, exc>>

\* setup_interstellar_ai returns after its report: to hython_autorun.py's main,
\* which goes on to save, or to the end of the run.
Report ==
  /\ pc = "report"
  /\ printed' = ReportLines(locals.sd_ok, cockpit_nodes, fs)
  /\ pc' = IF args.script = "hython_autorun.py" THEN "save" ELSE "done"
  /\ UNCHANGED <<assigned, saved, host, scene, fs, shader, runs, args, uv_out,
                 cockpit_nodes, locals, attempt, sd, http, exc>>

Next ==
  \/ CallSetup
  \/ EnsureHoudini
  \/ Blockout
  \/ Cockpit
  \/ Camera
  \/ \E t \in Textures : Snapshot(t)
  \/ \E t \in Textures : SdCall(t)
  \/ SdPrepare
  \/ SdPost(RunResponses)
  \/ SdStore(RunFaults)
  \/ SdReturn
  \/ Pdg
  \/ Material
  \/ Report

Spec == Init /\ [][Next]_vars

\* ------------------------------------------------------------------ re-runs

\* The first call of setup_interstellar_ai on a new scene.
FirstCall == runs = 0 /\ CallSetup

\* setup_interstellar_ai called again, with the arguments of the call that
\* has just returned.
RunAgain ==
  /\ pc = "done"
  /\ args.entry = "setup_interstellar_ai"
  /\ Begin(args, "ensure", NoCall)

NextRerun ==
  \/ FirstCall
  \/ RunAgain
  \/ EnsureHoudini
  \/ Blockout
  \/ Cockpit
  \/ Camera
  \/ \E t \in Textures : Snapshot(t)
  \/ \E t \in Textures : SdCall(t)
  \/ SdPrepare
  \/ SdPost(RunResponses)
  \/ SdStore(RunFaults)
  \/ SdReturn
  \/ Pdg
  \/ Material
  \/ Report

\* setup_interstellar_ai run on a new scene and then re-run with the same
\* arguments each time it has returned.
RerunSpec == Init /\ [][NextRerun]_vars

\* --------------------------------------------------- the merge helper alone

MergeNames == {"merge_rivets", "merge_conduit"}

\* A geometry container holding the nodes the selector attaches, and possibly
\* a node named merge_rivets that is not a merge, and a merge node
\* merge_conduit nothing is wired to yet.
InitMerge ==
  \E squatter \in BOOLEAN, bare \in BOOLEAN :
    LET m0 == GetOrCreateAll(<<>>, GeoName,
                << <<"uvflatten::2.0", "uvs">>, <<"copytopoints", "rivets_copy">>,
                   <<"polywire", "conduit_wire">> >>)
        m1 == IF squatter THEN GetOrCreate(m0, GeoName, "null", "merge_rivets") ELSE m0
        m2 == IF bare THEN GetOrCreate(m1, GeoName, "merge", "merge_conduit") ELSE m1
    IN  InitAt([p \in Paths |-> Absent], m2)

\* _connect_merge(parent, a, b, name) called on its own, with any two nodes
\* of the container that do not carry the merge's name.
CallConnectMerge ==
  \E name \in MergeNames :
    \E a \in { n \in DOMAIN scene : n[1] # name },
       b \in { n \in DOMAIN scene : n[1] # name } :
      LET r == ConnectMerge(scene, GeoName, a, b, name)
      IN  /\ pc \in {"idle", "done"}
          /\ runs < MaxRuns
          /\ runs' = runs + 1
          /\ args' = [NoArgs EXCEPT !.entry = "_connect_merge",
                                    !.a = a, !.b = b, !.name = name]
          /\ scene' = r.scene
          /\ uv_out' = r.node
          /\ pc' = "done"
          /\ UNCHANGED <<host, fs, shader, cockpit_nodes, locals, attempt, sd,
                         http, exc, assigned, printed, saved>>

NextMerge == CallConnectMerge

MergeSpec == InitMerge /\ [][NextMerge]_vars

\* ------------------------------------------------------ script entry points

\* setup_houdini_ai.py run as a script: setup_interstellar_ai() with the
\* defaults of its parameters.
RunSetupScript ==
  Begin([NoArgs EXCEPT !.script = "setup_houdini_ai.py",
                       !.entry = "setup_interstellar_ai",
                       !.prompt_tweaks = DefaultTweaks],
        "ensure", NoCall)

\* hython_autorun.py run as a script: its main() calls setup_interstellar_ai
\* with these arguments.
RunAutorun ==
  Begin([NoArgs EXCEPT !.script = "hython_autorun.py",
                       !.entry = "setup_interstellar_ai",
                       !.prompt_tweaks = DefaultTweaks,
                       !.sd_api_url = BaseUrl,
                       !.cockpit_style = CockpitStyle,
                       !.build_stablehoudini_pdg = TRUE],
        "auto_main", NoCall)

\* generate_interstellar_ship.py run as a script: its main() calls build_ship.
RunGenerate ==
  Begin([NoArgs EXCEPT !.script = "generate_interstellar_ship.py",
                       !.entry = "build_ship",
                       !.sd_api_url = BaseUrl],
        "gen_main", NoCall)

\* The TOP network scaffold of hython_autorun.py's main (lines 33-48): the
\* failures of createNode are caught.
AutorunScaffold(sc, has_type) ==
  LET t1 == GetOrCreate(sc, "obj", "topnet", "stablehoudini_pdg")
      t2 == GetOrCreate(t1, "stablehoudini_pdg", "localscheduler", "localscheduler")
  IN  IF has_type
      THEN GetOrCreate(t2, "stablehoudini_pdg", "top_Stable_Diffusion", "sd_dream1")
      ELSE t2

\* hython_autorun.py main() up to its call of setup_interstellar_ai.
AutoMain ==
  /\ pc = "auto_main"
  /\ IF ~host.hou THEN Raise("main", "ImportError") /\ UNCHANGED scene
     ELSE IF ~host.obj THEN Raise("main", "RuntimeError") /\ UNCHANGED scene
     ELSE /\ scene' = AutorunScaffold(scene, host.sd_top)
          /\ pc' = "ensure"
          /\ UNCHANGED exc
  /\ UNCHANGED <<assigned, printed, saved, host, fs, shader, runs, args, uv_out,
                 cockpit_nodes, locals, attempt, sd, http>>

\* generate_interstellar_ship.py main() up to its call of build_ship: import
\* hou, and hou.hipFile.clear(), whose failure is caught.
GenMain ==
  /\ pc = "gen_main"
  /\ IF ~host.hou
     THEN Raise("main", "SystemExit") /\ UNCHANGED <<scene, shader, assigned>>
     ELSE /\ \E cleared \in BOOLEAN :
               /\ scene' = IF cleared THEN <<>> ELSE scene
               /\ shader' = IF cleared THEN NoShader ELSE shader
               /\ assigned' = IF cleared THEN "" ELSE assigned
          /\ pc' = "build_ship"
          /\ UNCHANGED exc
  /\ UNCHANGED <<printed, saved, host, fs, runs, args, uv_out, cockpit_nodes,
                 locals, attempt, sd, http>>

GenParts ==
  << <<"tube", "hull_core">>, <<"tube", "hull_shield_1">>, <<"tube", "hull_shield_2">>,
     <<"tube", "hull_shield_3">>,
     <<"cone", "engine_nozzle_L">>, <<"cone", "engine_nozzle_R">>,
     <<"sphere", "engine_plasma_L">>, <<"sphere", "engine_plasma_R">>,
     <<"torus", "bussard_ring">>, <<"cone", "bussard_cone">> >>

\* The graph after build_ship's node building (lines 72-188): a missing /obj
\* is created, the UVs take the merge, the material SOP takes the UVs, and
\* the shader /mat/ship_mat is got or created.
BuildShipGraph(sc, has_obj, uv_type) ==
  LET b0 == IF has_obj THEN sc ELSE GetOrCreate(sc, "/", "obj", "obj")
      b1 == GetOrCreate(b0, "obj", "geo", GeoName)
      b2 == GetOrCreateAll(b1, GeoName, GenParts)
      b3 == GetOrCreate(b2, GeoName, "merge", "ship_merge")
      b4 == SetInputs(b3, N("ship_merge"), 0, [i \in 1..Len(GenParts) |-> GenParts[i][2]])
      b5 == GetOrCreate(b4, GeoName, uv_type, "uvs")
      b6 == SetInput(b5, N("uvs"), 0, N("ship_merge"))
      b7 == GetOrCreate(b6, GeoName, "material", "assign_material")
      b8 == SetInput(b7, N("assign_material"), 0, N("uvs"))
  IN  GetOrCreate(b8, "mat", "principledshader::2.0", "ship_mat")

\* build_ship(prompt_for_texture) up to ok = call_sd_txt2img(prompt_for_texture,
\* texture_file): main's texture prompt is not empty, so the call is made.
BuildShip ==
  /\ pc = "build_ship"
  /\ scene' = BuildShipGraph(scene, host.obj, "uvflatten::2.0")
  /\ uv_out' = N("uvs")
  /\ sd' = [NoCall EXCEPT !.variant = "call_sd_txt2img", !.t = "ship",
                          !.output_image = TexturePath("ship"),
                          !.api_url = BaseUrl]
  /\ attempt' = [attempt EXCEPT !["ship"] = "REQUESTED"]
  /\ pc' = "sd_prepare"
  /\ UNCHANGED <<assigned, printed, saved, host, fs, shader, runs, args,
                 cockpit_nodes, locals, http, exc>>

\* A build_ship that assigns the shader only when the texture call succeeded.
GenTextureAssignIfOk ==
  /\ pc = "gen_texture"
  /\ shader' = IF locals.sd_ok = "True"
               THEN [basecolor_useTexture |-> 1,
                     basecolor_texture |-> TexturePath("ship")]
               ELSE shader
  /\ assigned' = IF locals.sd_ok = "True" THEN MatPath ELSE assigned
  /\ pc' = "save"
  /\ UNCHANGED <<printed, saved, host, scene, fs, runs, args, uv_out,
                 cockpit_nodes, locals, attempt, sd, http, exc>>

\* build_ship after the call (lines 196-218): the texture parameters are set
\* if ok, and the shader is assigned to the material SOP.
GenTexture ==
  /\ pc = "gen_texture"
  /\ shader' = IF locals.sd_ok = "True"
               THEN [basecolor_useTexture |-> 1,
                     basecolor_texture |-> TexturePath("ship")]
               ELSE shader
  /\ assigned' = MatPath
  /\ pc' = "save"
  /\ UNCHANGED <<printed, saved, host, scene, fs, runs, args, uv_out,
                 cockpit_nodes, locals, attempt, sd, http, exc>>

\* The scene file a script saves.
HipFile(script) ==
  IF script = "hython_autorun.py" THEN "houdini/interstellar_ship.hip"
  ELSE "houdini/generated_interstellar_ship.hipnc"

\* mkdir of the output directory and hou.hipFile.save(...), the last
\* statements of both main functions: they succeed, or one of them raises.
Save ==
  /\ pc = "save"
  /\ \E ok \in BOOLEAN :
       IF ok
       THEN /\ saved' = Append(saved, HipFile(args.script))
            /\ pc' = "done"
            /\ UNCHANGED exc
       ELSE Raise("main", "OSError") /\ UNCHANGED saved
  /\ UNCHANGED <<assigned, printed, host, scene, fs, shader, runs, args, uv_out,
                 cockpit_nodes, locals, attempt, sd, http>>

NextEntry ==
  \/ RunSetupScript
  \/ RunAutorun
  \/ RunGenerate
  \/ AutoMain
  \/ GenMain
  \/ BuildShip
  \/ GenTexture
  \/ Save
  \/ EnsureHoudini
  \/ Blockout
  \/ Cockpit
  \/ Camera
  \/ \E t \in Textures : Snapshot(t)
  \/ \E t \in Textures : SdCall(t)
  \/ SdPrepare
  \/ Txt2ImgPrepare
  \/ SdPost(RunResponses)
  \/ SdStore(RunFaults)
  \/ SdReturn
  \/ Pdg
  \/ Material
  \/ Report

\* A new scene in a project directory that may hold the textures an earlier
\* session generated.
InitProject ==
  \E have \in SUBSET Textures :
    InitWith([p \in Paths |->
                IF \E t \in have : p = TexturePath(t) THEN "imgB" ELSE Absent])

\* Runs of the three scripts on one scene and one project directory.
EntrySpec == InitProject /\ [][NextEntry]_vars

\* A project directory that may hold viewport snapshots of earlier sessions.
InitFiles ==
  \E have \in SUBSET Textures :
    InitWith([p \in Paths |->
                IF \E t \in have : p = SnapshotPath(t) THEN "view" ELSE Absent])

\* _call_stable_diffusion(init_image, prompt, output_image, api_url) called on
\* its own.
CallStableDiffusion ==
  \E t \in Textures, u \in ApiUrls, given \in BOOLEAN :
    Begin([NoArgs EXCEPT !.entry = "_call_stable_diffusion", !.sd_api_url = u],
          "sd_prepare",
          [NoCall EXCEPT !.variant = "_call_stable_diffusion", !.t = t,
                         !.init_image = IF given THEN SnapshotPath(t) ELSE None,
                         !.output_image = TexturePath(t),
                         !.api_url = u])

\* call_sd_txt2img(prompt, out_path, api_url) called on its own.
CallSdTxt2Img ==
  \E u \in {BaseUrl, BaseUrl \o <<"/">>} :
    Begin([NoArgs EXCEPT !.entry = "call_sd_txt2img", !.sd_api_url = u],
          "sd_prepare",
          [NoCall EXCEPT !.variant = "call_sd_txt2img", !.t = "ship",
                         !.output_image = TexturePath("ship"), !.api_url = u])

NextRoundTrip ==
  \/ CallStableDiffusion
  \/ CallSdTxt2Img
  \/ SdPrepare
  \/ Txt2ImgPrepare
  \/ SdPost(Responses)
  \/ SdStore(FsFaults)
  \/ SdReturn

\* The texture round trips called on their own, with every answer and fault.
RoundTripSpec == InitFiles /\ [][NextRoundTrip]_vars

\* _create_spaceship_blockout called on its own, with every bounded prompt.
NextBlockout == CallBlockout \/ Blockout

BlockoutSpec == Init /\ [][NextBlockout]_vars


\* ------------------------------------------------------------------ claims

\* C1: the texture round trip never raises past its boundary: no run ends
\* with an exception that left _call_stable_diffusion or call_sd_txt2img.
C1_NeverRaises == exc.where \notin {"_call_stable_diffusion", "call_sd_txt2img"}

RivetNodes == {N("rivets_scatter"), N("rivet_circle"), N("rivets_copy"),
               N("merge_rivets")}
ConduitNodes == {N("conduit_curve"), N("conduit_wire"), N("merge_conduit")}

\* The input indices of node n that b is connected at.
IndicesOf(sc, n, b) == { i \in DOMAIN sc[n].inputs : sc[n].inputs[i] = b }

\* C2: _connect_merge is idempotent: however often the builder ran with the
\* base uvs and the branch rivets_copy, merge_rivets has uvs at input 0 and
\* rivets_copy at exactly one input index.
C2_NoDuplicateWiring ==
  N("merge_rivets") \in DOMAIN scene =>
    /\ InputOf(scene, N("merge_rivets"), 0) = N("uvs")
    /\ Cardinality(IndicesOf(scene, N("merge_rivets"), N("rivets_copy"))) = 1

MatchesRivet(p) == Contains(Lower(p), KwRivet)
MatchesConduit(p) == Contains(Lower(p), KwGlow) \/ Contains(Lower(p), KwConduit)

\* A step of _create_spaceship_blockout that found /obj.
BlockoutStep == pc = "blockout" /\ host.obj /\ pc' # "blockout"

\* The rivet branch as the selector leaves it: its nodes, their wiring, and
\* merge_rivets attached to the running output.
RivetBranch(sc, out) ==
  /\ RivetNodes \subseteq DOMAIN sc
  /\ InputOf(sc, N("rivets_scatter"), 0) = N("uvs")
  /\ InputOf(sc, N("rivets_copy"), 0) = N("rivet_circle")
  /\ InputOf(sc, N("rivets_copy"), 1) = N("rivets_scatter")
  /\ InputOf(sc, N("merge_rivets"), 0) = N("uvs")
  /\ IndicesOf(sc, N("merge_rivets"), N("rivets_copy")) # {}
  /\ \/ out = N("merge_rivets")
     \/ out = N("merge_conduit") /\ InputOf(sc, out, 0) = N("merge_rivets")

\* The nodes of `ns` are neither created nor wired by the step.
Untouched(ns) ==
  /\ ns \cap DOMAIN scene' = ns \cap DOMAIN scene
  /\ \A n \in ns \cap DOMAIN scene : scene'[n] = scene[n]

\* C3: the selector produces the rivet branch if and only if the lower-cased
\* prompt contains "rivet"; without it no rivet node is created or wired and
\* merge_rivets is not in the returned chain.
C3_RivetIffKeyword ==
  [][BlockoutStep =>
       IF MatchesRivet(args.prompt_tweaks)
       THEN RivetBranch(scene', uv_out')
       ELSE /\ Untouched(RivetNodes)
            /\ uv_out' # N("merge_rivets")
            /\ (uv_out' = N("merge_conduit")
                  => InputOf(scene', uv_out', 0) # N("merge_rivets"))]_vars

C3_Witness ==
  /\ pc = "done" /\ args.entry = "_create_spaceship_blockout"
  /\ MatchesRivet(args.prompt_tweaks)
  /\ ~Contains(args.prompt_tweaks, KwRivet)
  /\ RivetBranch(scene, uv_out)

\* The conduit branch as the selector leaves it.
ConduitBranch(sc, out) ==
  /\ ConduitNodes \subseteq DOMAIN sc
  /\ InputOf(sc, N("conduit_wire"), 0) = N("conduit_curve")
  /\ IndicesOf(sc, N("merge_conduit"), N("conduit_wire")) # {}
  /\ out = N("merge_conduit")

\* The prompts of the bounded set by the keyword groups they match.
PromptsMatching(r, c) ==
  { p \in BoundedPrompts : MatchesRivet(p) = r /\ MatchesConduit(p) = c }

\* C4: the selector produces the conduit branch if and only if the
\* lower-cased prompt contains "glow" or "conduit", whatever "rivet" did: each
\* of the four combinations of the two keyword groups has a prompt, and on
\* every blockout step the conduit branch follows its own group alone.
C4_ConduitIffKeyword ==
  /\ \A r \in BOOLEAN, c \in BOOLEAN :
       /\ PromptsMatching(r, c) # {}
       /\ \A p \in PromptsMatching(r, c) :
            LET res == ApplyPromptTweaks(<<>>, N("uvs"), p)
            IN  /\ (N("merge_conduit") \in DOMAIN res.scene) = c
                /\ (N("merge_rivets") \in DOMAIN res.scene) = r
  /\ [][BlockoutStep =>
          IF MatchesConduit(args.prompt_tweaks)
          THEN ConduitBranch(scene', uv_out')
          ELSE Untouched(ConduitNodes) /\ uv_out' # N("merge_conduit")]_vars

C4_Witness ==
  /\ pc = "done" /\ args.entry = "_create_spaceship_blockout"
  /\ MatchesConduit(args.prompt_tweaks)
  /\ ~MatchesRivet(args.prompt_tweaks)
  /\ ConduitBranch(scene, uv_out)
  /\ RivetNodes \cap DOMAIN scene # {}

\* C5: with both keyword groups the returned node is merge_conduit, which has
\* merge_rivets at input 0 and conduit_wire at another input, and merge_rivets
\* has the base uvs at input 0 and rivets_copy at another input; with neither
\* group the returned node is the base itself.
C5_BothBranchesMerged ==
  (pc = "done" /\ args.entry = "_create_spaceship_blockout") =>
    /\ (MatchesRivet(args.prompt_tweaks) /\ MatchesConduit(args.prompt_tweaks)) =>
         /\ uv_out = N("merge_conduit")
         /\ InputOf(scene, N("merge_conduit"), 0) = N("merge_rivets")
         /\ \E i \in IndicesOf(scene, N("merge_conduit"), N("conduit_wire")) : i >= 1
         /\ InputOf(scene, N("merge_rivets"), 0) = N("uvs")
         /\ \E i \in IndicesOf(scene, N("merge_rivets"), N("rivets_copy")) : i >= 1
    /\ (~MatchesRivet(args.prompt_tweaks) /\ ~MatchesConduit(args.prompt_tweaks)) =>
         uv_out = N("uvs")

C5_Witness ==
  /\ pc = "done" /\ args.entry = "_create_spaceship_blockout"
  /\ MatchesRivet(args.prompt_tweaks) /\ MatchesConduit(args.prompt_tweaks)
  /\ uv_out = N("merge_conduit")
  /\ InputOf(scene, N("merge_conduit"), 0) = N("merge_rivets")
  /\ 2 \in IndicesOf(scene, N("merge_conduit"), N("conduit_wire"))

\* A well-formed response whose image list holds base64 images, one at least.
GoodResponse(resp) ==
  /\ resp.kind = "ok" /\ resp.images # <<>>
  /\ \A i \in 1..Len(resp.images) : IsB64(resp.images[i])

\* The call wrote exactly one file, the first image decoded, at its output
\* path, and returns True.
StoredFirstImage ==
  /\ sd.ret = "True"
  /\ sd.writes = << [path |-> sd.output_image, data |-> sd.resp.images[1][2]] >>
  /\ fs[sd.output_image] = sd.resp.images[1][2]

\* C6 as stated: after a well-formed response with at least one base64 image
\* the round trip has written exactly one file, the first image decoded, at
\* the output path, and returns True.
C6_StoresFirstImage ==
  (pc = "sd_return" /\ GoodResponse(sd.resp)) => StoredFirstImage

\* C6 amended: the same, provided creating the output directory and writing
\* the file did not fail; when they failed the call returns False.
C6_StoresFirstImageUnlessFsFails ==
  (pc = "sd_return" /\ GoodResponse(sd.resp)) =>
    IF sd.fault = "none" THEN StoredFirstImage ELSE sd.ret = "False"

C6_Witness ==
  /\ pc = "sd_return" /\ sd.variant = "_call_stable_diffusion"
  /\ GoodResponse(sd.resp) /\ sd.fault = "none"
  /\ Len(sd.resp.images) = 2 /\ sd.resp.images[1] # sd.resp.images[2]
  /\ sd.reads # {}
  /\ StoredFirstImage

NoImages(resp) == resp.kind = "no_images_key" \/ (resp.kind = "ok" /\ resp.images = <<>>)
NetworkError == [kind |-> "timeout", images |-> <<>>]

\* C7: a response with an empty or missing image list ends like a network
\* error: the call returns False and writes nothing, for every filesystem
\* behaviour the frame and the files are those a timeout gives, the caller
\* gets False, and a caller holding False leaves the shader as it was.
C7_NoImagesLikeNetworkError ==
  [][/\ (pc = "sd_store" /\ NoImages(sd.resp)) =>
          /\ sd'.ret = "False" /\ sd'.writes = <<>> /\ fs' = fs
          /\ \A fault \in FsFaults :
               StoreImage(sd, fs, sd.resp, fault) = StoreImage(sd, fs, NetworkError, fault)
     /\ (pc = "sd_return" /\ sd.ret = "False") => locals'[LocalOfSd(sd.t)] = "False"
     /\ (pc = "material" /\ locals.sd_ok = "False") => shader' = shader]_vars

C7_Witness ==
  /\ pc = "sd_return" /\ args.entry = "setup_interstellar_ai"
  /\ sd.resp.kind = "ok" /\ sd.resp.images = <<>>
  /\ sd.t = "ship" /\ sd.ret = "False" /\ sd.writes = <<>>
  /\ fs[TexturePath("ship")] = Absent

SdPcs == {"sd_prepare", "sd_post", "sd_store", "sd_return"}

\* C8: with no API URL (None or "") every texture call of
\* setup_interstellar_ai returns False as skipped, before any request, read of
\* the snapshot or write, and the whole run issues no HTTP request.
C8_NoUrlNoRequest ==
  (args.entry = "setup_interstellar_ai" /\ args.sd_api_url \in {NoneStr, <<>>}) =>
    /\ http = <<>>
    /\ pc \notin {"sd_post", "sd_store"}
    /\ pc = "sd_return" =>
         sd.ret = "False" /\ sd.skipped /\ sd.reads = {} /\ sd.writes = <<>>
    /\ \A t \in Textures : attempt[t] \in {"NOT_REQUESTED", "REQUESTED", "SKIPPED"}
    /\ locals.sd_ok # "True" /\ locals.cockpit_ok # "True"

C8_Witness ==
  /\ pc = "done" /\ args.entry = "setup_interstellar_ai"
  /\ args.sd_api_url = <<>>
  /\ locals.snapshot_ok = "True" /\ fs[SnapshotPath("ship")] # Absent
  /\ attempt["ship"] = "SKIPPED" /\ attempt["cockpit"] = "SKIPPED"
  /\ http = <<>>

\* The requests of this run posted for texture t.
PostsFor(t) == { i \in 1..Len(http) : http[i].t = t }

Terminal == {"SUCCEEDED", "SKIPPED", "FAILED"}

\* C9: each texture attempt goes NOT_REQUESTED -> REQUESTED -> one terminal
\* outcome: an attempt is REQUESTED only while its call is in progress, so a
\* call that is over has ended in SUCCEEDED, SKIPPED or FAILED; an attempt
\* posts at most once, and an attempt not requested has posted nothing.
C9_AttemptStateMachine ==
  \A t \in Textures :
    /\ Cardinality(PostsFor(t)) <= 1
    /\ attempt[t] = "NOT_REQUESTED" => PostsFor(t) = {}
    /\ attempt[t] = "REQUESTED" => pc \in SdPcs /\ sd.t = t
    /\ (t = "ship" /\ pc \in {"material", "report", "done"}) => attempt[t] \in Terminal

BaseKeys == {"prompt", "steps", "cfg_scale", "sampler_name", "width", "height"}

\* The fixed sampling parameters of a request body.
FixedSampling(body) ==
  /\ body["steps"] = 20 /\ body["cfg_scale"] = "7.0"
  /\ body["sampler_name"] = "Euler a"
  /\ body["width"] = 1024 /\ body["height"] = 1024

\* A request as the image-to-image, or the text-to-image, endpoint takes it.
RequestShape(r, img) ==
  /\ FixedSampling(r.payload)
  /\ r.url = <<"http://127.0.0.1:7860",
               IF img THEN "/sdapi/v1/img2img" ELSE "/sdapi/v1/txt2img">>
  /\ IF img
     THEN /\ DOMAIN r.payload = BaseKeys \cup {"init_images", "denoising_strength"}
          /\ r.payload["init_images"] = << <<"b64", fs[SnapshotPath(r.t)]>> >>
          /\ r.payload["denoising_strength"] = "0.6"
     ELSE DOMAIN r.payload = BaseKeys

\* C10 as stated: a request of setup_interstellar_ai goes to img2img, with
\* the snapshot attached, exactly when the viewport snapshot is on disk.
C10_Img2ImgIffSnapshotOnDisk ==
  \A i \in 1..Len(http) :
    RequestShape(http[i], fs[SnapshotPath(http[i].t)] # Absent)

\* C10 amended: it goes to img2img exactly when the snapshot render of this
\* run returned True, that is the render call did not raise and the snapshot
\* file existed after it.
C10_Img2ImgIffSnapshotOk ==
  \A i \in 1..Len(http) :
    RequestShape(http[i], locals[LocalOfSnapshot(http[i].t)] = "True")

C10_Witness ==
  /\ Len(http) = 2
  /\ locals.snapshot_ok = "True" /\ locals.cockpit_snapshot_ok = "False"
  /\ fs[SnapshotPath("cockpit")] # Absent
  /\ RequestShape(http[1], TRUE) /\ RequestShape(http[2], FALSE)

\* The texture parameters of a shader that uses the ship texture.
Textured == [basecolor_useTexture |-> 1, basecolor_texture |-> "ship_texture.png"]

\* The steps that create or update the material: lines 579-580 of
\* setup_interstellar_ai, lines 196-211 of build_ship.
MaterialPcs == {"material", "gen_texture"}

\* C11: the shader's texture parameters are set only in a run whose ship
\* texture attempt succeeded: the material step sets them after SUCCEEDED and
\* leaves them as they were after SKIPPED or FAILED, whatever texture file is
\* on disk, and no other step gives them a value.
C11_ShaderOnlyOnSuccess ==
  [][/\ pc \in MaterialPcs =>
          IF attempt["ship"] = "SUCCEEDED"
          THEN shader' = Textured
          ELSE attempt["ship"] \in {"SKIPPED", "FAILED"} /\ shader' = shader
     /\ (shader' # shader /\ shader' # NoShader) =>
          pc \in MaterialPcs /\ attempt["ship"] = "SUCCEEDED"]_vars

C11_Witness ==
  /\ pc = "done" /\ args.entry = "setup_interstellar_ai"
  /\ attempt["ship"] = "FAILED"
  /\ fs[TexturePath("ship")] # Absent
  /\ assigned = MatPath
  /\ shader = NoShader

\* C12: a run aborts only when the host scripting module cannot be imported
\* or the root node /obj cannot be located; the failure of any other external
\* call is caught where it occurs and the run goes on to its end.
C12_AbortsOnlyWithoutHost ==
  pc = "aborted" => (~host.hou \/ ~host.obj)

\* A step that is a call of _connect_merge.
MergeStep == args'.entry = "_connect_merge" /\ runs' = runs + 1

\* The lowest input index >= 1 of node n that nothing is connected at.
LowestFree(sc, n) ==
  CHOOSE i \in 1..(Cardinality(DOMAIN sc[n].inputs) + 1) :
    /\ InputOf(sc, n, i) = NoNode
    /\ \A j \in 1..(i - 1) : InputOf(sc, n, j) # NoNode

\* C13: after _connect_merge(parent, a, b, name) the returned node is a merge
\* with a at input 0 and b at an index >= 1. If the node had no first input,
\* a is at input 0 and b at input 1; otherwise b is at the lowest index >= 1
\* that was unconnected, every input connected at an index >= 1 is as it was,
\* and input 0 is a. No other node is changed, and none but a new merge is
\* created.
C13_ConnectMergeContract ==
  [][MergeStep =>
       LET node == uv_out'
           a == args'.a
           b == args'.b
       IN  /\ node \in DOMAIN scene' /\ scene'[node].type = "merge"
           /\ InputOf(scene', node, 0) = a
           /\ \E i \in DOMAIN scene'[node].inputs : i >= 1 /\ scene'[node].inputs[i] = b
           /\ IF node \in DOMAIN scene /\ InputOf(scene, node, 0) # NoNode
              THEN /\ InputOf(scene', node, LowestFree(scene, node)) = b
                   /\ DOMAIN scene'[node].inputs =
                        DOMAIN scene[node].inputs \cup {LowestFree(scene, node)}
                   /\ \A i \in DOMAIN scene[node].inputs :
                        i >= 1 => scene'[node].inputs[i] = scene[node].inputs[i]
              ELSE /\ InputOf(scene', node, 1) = b
                   /\ DOMAIN scene'[node].inputs = {0, 1}
           /\ DOMAIN scene' \ DOMAIN scene \subseteq {node}
           /\ \A n \in DOMAIN scene \ {node} : scene'[n] = scene[n]]_vars

C13_Witness ==
  /\ pc = "done" /\ args.entry = "_connect_merge" /\ runs = 2
  /\ args.name = "merge_conduit" /\ args.a = N("rivets_copy")
  /\ uv_out = N("merge_conduit")
  /\ scene[uv_out].inputs = (0 :> N("rivets_copy")) @@ (1 :> N("conduit_wire"))
                              @@ (2 :> N("uvs"))
  /\ args.b = N("uvs")

Scripts == {"generate_interstellar_ship.py", "hython_autorun.py",
            "setup_houdini_ai.py"}

\* A step that ends a run of a script of `ss` without an abort.
Finishes(ss) == pc # "done" /\ pc' = "done" /\ args.script \in ss

\* C14 as stated: every script run goes through setup_interstellar_ai, and
\* the step that ends a run that did not abort is the save of the scene file.
C14_AllEntriesSetupThenSave ==
  [][/\ args'.script \in Scripts => args'.entry = "setup_interstellar_ai"
     /\ Finishes(Scripts) =>
          /\ "Setup complete." \in printed
          /\ pc = "save" /\ saved' = Append(saved, HipFile(args.script))]_vars

\* C14 amended: hython_autorun.py and setup_houdini_ai.py go through
\* setup_interstellar_ai, generate_interstellar_ship.py goes through its own
\* build_ship; a run of generate_interstellar_ship.py or hython_autorun.py
\* that does not abort ends with the save of its scene file, the one save of
\* the run; a run of setup_houdini_ai.py saves nothing.
C14_TwoEntriesSetupTwoSave ==
  [][/\ args'.script \in {"hython_autorun.py", "setup_houdini_ai.py"} =>
          args'.entry = "setup_interstellar_ai"
     /\ args'.script = "generate_interstellar_ship.py" => args'.entry = "build_ship"
     /\ Finishes({"hython_autorun.py", "setup_houdini_ai.py"}) =>
          "Setup complete." \in printed'
     /\ Finishes({"generate_interstellar_ship.py"}) => printed' = {}
     /\ Finishes({"generate_interstellar_ship.py", "hython_autorun.py"}) =>
          pc = "save" /\ saved = <<>> /\ saved' = <<HipFile(args.script)>>
     /\ args'.script = "setup_houdini_ai.py" => saved' = <<>>]_vars

C14_Witness ==
  /\ pc = "done" /\ args.script = "hython_autorun.py"
  /\ args.entry = "setup_interstellar_ai"
  /\ "Setup complete." \in printed
  /\ saved = <<"houdini/interstellar_ship.hip">>
  /\ runs = 2 /\ N("ship_mat") \in DOMAIN scene

\* A step of the render / AI-texture round trip that reaches outside: a
\* snapshot render or an HTTP request.
RoundTripStep == pc \in {"snapshot_ship", "snapshot_cockpit"} \/ http' # http

\* A step that saves a scene file.
SaveStep == Len(saved') > Len(saved)

\* Every texture attempt this run made has reached its terminal outcome.
AttemptsOver ==
  /\ attempt["ship"] \in Terminal
  /\ attempt["cockpit"] \in Terminal \cup {"NOT_REQUESTED"}

\* The geometry is built, unwrapped and wired into the material SOP.
GeometryBuilt ==
  /\ {N("ship_merge"), N("uvs"), N("assign_material")} \subseteq DOMAIN scene
  /\ InputOf(scene, N("uvs"), 0) # NoNode
  /\ uv_out # NoNode
  /\ InputOf(scene, N("assign_material"), 0) = uv_out

\* C15 as stated: no snapshot render and no HTTP request is issued before the
\* material exists and is assigned to the geometry's material node, and no
\* scene file is saved before the texture round trip is over.
C15_MaterialBeforeRoundTrip ==
  [][/\ RoundTripStep =>
          /\ GeometryBuilt
          /\ N("ship_mat") \in DOMAIN scene /\ assigned = MatPath
     /\ SaveStep => AttemptsOver]_vars

\* C15 amended: the geometry builders, the UV unwrap and the material SOP
\* come first, then the render / AI-texture round trip, then the shader's
\* texture parameters and its assignment to the material SOP, then the save:
\* a snapshot render or an HTTP request finds the geometry built and wired
\* into the material SOP; the shader is assigned, by the material step alone,
\* when every attempt of the run is over; a save finds the shader assigned
\* and every attempt over.
C15_MaterialAfterRoundTrip ==
  [][/\ RoundTripStep => GeometryBuilt
     /\ pc \in MaterialPcs =>
          AttemptsOver /\ http' = http /\ assigned' = MatPath
     /\ (assigned' # assigned /\ assigned' # "") => pc \in MaterialPcs
     /\ SaveStep =>
          pc = "save" /\ AttemptsOver /\ assigned = MatPath /\ http' = http]_vars

C15_Witness ==
  /\ pc = "done" /\ args.script = "generate_interstellar_ship.py"
  /\ runs = 1
  /\ Len(http) = 1 /\ attempt["ship"] = "FAILED"
  /\ assigned = MatPath
  /\ saved = <<"houdini/generated_interstellar_ship.hipnc">>

\* The nodes wired into one of the nodes of ns.
InputsOf(sc, ns) ==
  { sc[n].inputs[i] : <<n, i>> \in { <<m, j>> \in ns \X (0..10) : j \in DOMAIN sc[m].inputs } }

\* The nodes upstream of the nodes of ns, in at most k steps, and ns.
RECURSIVE UpstreamWithin(_, _, _)
UpstreamWithin(sc, ns, k) ==
  IF k = 0 THEN ns ELSE UpstreamWithin(sc, ns \cup InputsOf(sc, ns), k - 1)

\* The nodes that feed node n, n itself apart.
Upstream(sc, n) == UpstreamWithin(sc, InputsOf(sc, {n}), Cardinality(DOMAIN sc))

TweakMerges == {N("merge_rivets"), N("merge_conduit")}

\* A call of _create_spaceship_blockout has returned, its prompt matching a
\* keyword.
TweakedBlockout ==
  /\ pc = "done" /\ args.entry = "_create_spaceship_blockout"
  /\ MatchesRivet(args.prompt_tweaks) \/ MatchesConduit(args.prompt_tweaks)

\* C16 as stated: with a prompt that matches a keyword, the UV node is
\* downstream of the tweak's merge node and the chain is merged mesh ->
\* tweaks -> uvs -> assign_material.
C16_TweaksBeforeUvs ==
  TweakedBlockout =>
    /\ uv_out \in Upstream(scene, N("uvs"))
    /\ N("ship_merge") \in Upstream(scene, uv_out)
    /\ InputOf(scene, N("assign_material"), 0) = N("uvs")

\* C16 amended: the tweaks are applied to the unwrapped mesh: the chain is
\* ship_merge -> opt_reduce -> uvs -> tweak merges -> assign_material, the
\* tweak's merge node is downstream of uvs, and no tweak node is upstream of
\* uvs.
C16_TweaksAfterUvs ==
  TweakedBlockout =>
    /\ uv_out \in TweakMerges
    /\ InputOf(scene, N("assign_material"), 0) = uv_out
    /\ N("uvs") \in Upstream(scene, uv_out)
    /\ InputOf(scene, uv_out, 0) \in {N("uvs"), N("merge_rivets")}
    /\ InputOf(scene, uv_out, 0) = N("merge_rivets") =>
         InputOf(scene, N("merge_rivets"), 0) = N("uvs")
    /\ InputOf(scene, N("uvs"), 0) = N("opt_reduce")
    /\ InputOf(scene, N("opt_reduce"), 0) = N("ship_merge")
    /\ Upstream(scene, N("uvs")) \cap (RivetNodes \cup ConduitNodes) = {}

C16_Witness ==
  /\ TweakedBlockout
  /\ MatchesRivet(args.prompt_tweaks) /\ MatchesConduit(args.prompt_tweaks)
  /\ uv_out = N("merge_conduit")
  /\ InputOf(scene, N("assign_material"), 0) = N("merge_conduit")
  /\ InputOf(scene, N("merge_conduit"), 0) = N("merge_rivets")
  /\ InputOf(scene, N("merge_rivets"), 0) = N("uvs")
  /\ Upstream(scene, N("uvs")) =
       {N("opt_reduce"), N("ship_merge")} \cup { N(ShipPartNames[i]) : i \in 1..Len(ShipPartNames) }

\* C17: re-running the builder creates no node: in a run of
\* setup_interstellar_ai that follows a run with the same arguments that
\* returned, no step adds a node to the scene; and no node ever carries a
\* name the host had to make unique, that is, for each name asked for there
\* is at most one node.
C17_RerunCreatesNoNode ==
  [][/\ runs >= 2 => DOMAIN scene' = DOMAIN scene
     /\ \A n \in DOMAIN scene' : n[2] = 0]_vars

\* C18: the report agrees with this run's attempts: "Applied AI texture" is
\* printed only if the ship texture attempt of this run succeeded, and
\* "Applied cockpit AI texture" only if a cockpit was built and the cockpit
\* texture attempt of this run succeeded.
C18_ReportAgreesWithOutcome ==
  /\ "Applied AI texture" \in printed => attempt["ship"] = "SUCCEEDED"
  /\ "Applied cockpit AI texture" \in printed =>
       cockpit_nodes # None /\ attempt["cockpit"] = "SUCCEEDED"

====
